---- MODULE Spec2Model ----
(***************************************************************************)
(* Model of resize_flac_cover.py: the image transform (resize_image), the  *)
(* five format adapters (process_flac, process_mp3, process_m4a,           *)
(* process_ogg, process_wav), the dispatcher (process_file) and the batch  *)
(* driver (process_files).                                                 *)
(*                                                                         *)
(* Image bytes are abstracted to what the transform and the adapters can   *)
(* observe of them: whether they decode, the container format, the colour  *)
(* mode, the pixel size, the picture they show (px) and how many times     *)
(* they went through the lossy JPEG encoder (gen).                         *)
(***************************************************************************)
EXTENDS Integers, Sequences, FiniteSets, TLC

\* Bounds of the model.
MaxPics == 2      \* pictures / APIC frames / cover entries per file
MaxFiles == 2     \* paths handed to one batch run
MaxRuns == 2      \* consecutive runs of the tool over the same paths

VARIABLES
    argv,           \* the paths given to process_files
    disk,           \* path -> metadata persisted on disk
    pc,             \* position in process_files / the running adapter
    valid_files,    \* process_files' set of collected paths
    todo,           \* collected paths the for-loop has not visited yet
    success_count,  \* process_files' counter
    handle,         \* the adapter's in-memory audio object
    call,           \* bookkeeping of the current / last adapter call
    log,            \* path -> lines printed about it in this run
    handed,         \* path -> number of adapter calls in this run
    run,            \* number of the current run
    history,        \* per finished run: its log and the disk it left
    img_in,         \* input of a direct resize_image call
    img_out         \* result of a direct resize_image call

vars == <<argv, disk, pc, valid_files, todo, success_count, handle, call,
          log, handed, run, history, img_in, img_out>>

batch_vars == <<argv, disk, pc, valid_files, todo, success_count, handle,
                call, log, handed, run, history>>

----------------------------------------------------------------------------
(* Image bytes *)

Image(fmt, mode, w, h, px, gen) ==
    [kind |-> "image", fmt |-> fmt, mode |-> mode, w |-> w, h |-> h,
     px |-> px, gen |-> gen]

\* Bytes no decoder accepts.
Corrupt(px) ==
    [kind |-> "corrupt", fmt |-> "", mode |-> "", w |-> 0, h |-> 0,
     px |-> px, gen |-> 0]

\* Python's None, as resize_image returns it.
NoneBytes ==
    [kind |-> "none", fmt |-> "", mode |-> "", w |-> 0, h |-> 0,
     px |-> 0, gen |-> 0]

\* Truth value of `resized := resize_image(...)`.
Truthy(b) == b.kind # "none"

\* Image.open(io.BytesIO(img_data)) raises on undecodable bytes.
CanOpen(img_data) == img_data.kind = "image"

\* if img.mode in ('RGBA', 'LA'): img = img.convert('RGB')
RemoveAlpha(mode) == IF mode \in {"RGBA", "LA"} THEN "RGB" ELSE mode

\* Modes the JPEG encoder writes; any other mode makes img.save raise.
JpegWritable(mode) == mode \in {"1", "L", "RGB", "RGBX", "CMYK", "YCbCr"}

\* Mode a decoder reports for the JPEG the encoder wrote.
JpegMode(mode) ==
    CASE mode = "1" -> "L"
      [] mode = "RGBX" -> "RGB"
      [] mode = "YCbCr" -> "RGB"
      [] OTHER -> mode

resize_image_skip_sized(img_data) ==
    IF ~CanOpen(img_data) THEN NoneBytes
    ELSE IF img_data.fmt = "JPEG" /\ img_data.w = 500 /\ img_data.h = 500
    THEN NoneBytes
    ELSE LET mode == RemoveAlpha(img_data.mode) IN
         IF ~JpegWritable(mode) THEN NoneBytes
         ELSE Image("JPEG", JpegMode(mode), 500, 500, img_data.px,
                    img_data.gen + 1)

resize_image(img_data) ==
    IF ~CanOpen(img_data) THEN NoneBytes
    ELSE LET mode == RemoveAlpha(img_data.mode) IN
         IF ~JpegWritable(mode) THEN NoneBytes
         ELSE Image("JPEG", JpegMode(mode), 500, 500, img_data.px,
                    img_data.gen + 1)

----------------------------------------------------------------------------
(* Metadata of the five containers *)

\* mutagen.flac.Picture: a picture block.
Picture(type, mime, desc, width, height, data) ==
    [type |-> type, mime |-> mime, desc |-> desc, width |-> width,
     height |-> height, data |-> data]

\* Picture(): the block mutagen constructs with no arguments.
EmptyPicture == Picture(0, "", "", 0, 0, NoneBytes)

\* mutagen.id3.APIC: an attached-picture frame.
APIC(encoding, mime, type, desc, data) ==
    [encoding |-> encoding, mime |-> mime, type |-> type, desc |-> desc,
     data |-> data]

\* mutagen.mp4.MP4Cover: cover bytes tagged with their image format.
MP4Cover(data, imageformat) == [data |-> data, imageformat |-> imageformat]

\* base64.b64encode(picture.write()).decode(): the text of a picture block.
B64Picture(picture) == [valid |-> TRUE, block |-> picture]

\* A field value that base64 / Picture() cannot parse.
B64Garbage == [valid |-> FALSE, block |-> EmptyPicture]

\* An ID3 tag: its APIC frames in order, and whether it holds other frames.
ID3Tag(frames, text) == [frames |-> frames, text |-> text]

FlacMeta(pictures) == [fmt |-> "flac", pictures |-> pictures]
Mp3Meta(id3) == [fmt |-> "mp3", id3 |-> id3]
M4aMeta(has_covr, covr) == [fmt |-> "m4a", has_covr |-> has_covr, covr |-> covr]
OggMeta(has_mbp, mbp) == [fmt |-> "ogg", has_mbp |-> has_mbp, mbp |-> mbp]
WavMeta(has_tags, id3) == [fmt |-> "wav", has_tags |-> has_tags, id3 |-> id3]
OtherMeta == [fmt |-> "other"]

----------------------------------------------------------------------------
(* The adapters' bodies, between opening the file and `if modified:`.      *)
(* Each yields the in-memory metadata, the modified flag, the bytes handed *)
(* to resize_image in order, the lines resize_image printed and whether    *)
(* an exception left the body.                                             *)

Body(tags, modified, passed, printed, raised) ==
    [tags |-> tags, modified |-> modified, passed |-> passed,
     printed |-> printed, raised |-> raised]

\* What one resize_image call adds to the lines printed.
PrintedBy(resized) == IF Truthy(resized) THEN <<>> ELSE <<"image_failed">>

IsFrontCover_any(picture) == TRUE

\* if picture.type == 3:  # Front cover
IsFrontCover(picture) == picture.type = 3

\* for picture in audio.pictures: ... (no break)
RECURSIVE flac_loop(_, _, _)
flac_loop(pictures, i, st) ==
    IF i > Len(pictures) THEN st
    ELSE LET picture == pictures[i] IN
         IF ~IsFrontCover(picture) THEN flac_loop(pictures, i + 1, st)
         ELSE LET resized == resize_image(picture.data)
                  st1 == [st EXCEPT !.passed = Append(@, picture.data),
                                    !.printed = @ \o PrintedBy(resized)]
              IN IF Truthy(resized)
                 THEN flac_loop(pictures, i + 1,
                        [st1 EXCEPT !.tags.pictures[i].data = resized,
                                    !.tags.pictures[i].width = 500,
                                    !.tags.pictures[i].height = 500,
                                    !.modified = TRUE])
                 ELSE flac_loop(pictures, i + 1, st1)

flac_body(tags) ==
    flac_loop(tags.pictures, 1, Body(tags, FALSE, <<>>, <<>>, FALSE))

id3_delall_keep(id3) == id3

\* audio.delall('APIC')
id3_delall(id3) == [id3 EXCEPT !.frames = <<>>]

\* audio.add(frame): a frame replaces the one with its HashKey (APIC:desc).
id3_add(id3, frame) ==
    [id3 EXCEPT !.frames =
        Append(SelectSeq(@, LAMBDA x : x.desc # frame.desc), frame)]

\* APIC(encoding=3, mime='image/jpeg', type=3, desc='Cover', data=resized)
NewAPIC(resized) == APIC(3, "image/jpeg", 3, "Cover", resized)

\* for apic in audio.getall('APIC'): ... break on the first success
RECURSIVE apic_loop(_, _)
apic_loop(apics, st) ==
    IF apics = <<>> THEN st
    ELSE LET apic == Head(apics)
             resized == resize_image(apic.data)
             st1 == [st EXCEPT !.passed = Append(@, apic.data),
                               !.printed = @ \o PrintedBy(resized)]
         IN IF Truthy(resized)
            THEN [st1 EXCEPT !.tags.id3 = id3_add(id3_delall(@), NewAPIC(resized)),
                             !.modified = TRUE]
            ELSE apic_loop(Tail(apics), st1)

mp3_body(tags) ==
    apic_loop(tags.id3.frames, Body(tags, FALSE, <<>>, <<>>, FALSE))

\* `not audio.tags`: no tag chunk, or a tag with no frame at all.
TagsFalsy(tags) ==
    ~tags.has_tags \/ (tags.id3.frames = <<>> /\ ~tags.id3.text)

\* audio.add_tags() raises when the file already has a tag chunk.
wav_body(tags) ==
    IF TagsFalsy(tags) /\ tags.has_tags
    THEN Body(tags, FALSE, <<>>, <<>>, TRUE)
    ELSE LET tagged == IF TagsFalsy(tags)
                       THEN [tags EXCEPT !.has_tags = TRUE,
                                         !.id3 = ID3Tag(<<>>, FALSE)]
                       ELSE tags
         IN apic_loop(tagged.id3.frames, Body(tagged, FALSE, <<>>, <<>>, FALSE))

\* audio['covr'][0] raises on an empty list.
m4a_body(tags) ==
    IF ~tags.has_covr THEN Body(tags, FALSE, <<>>, <<>>, FALSE)
    ELSE IF tags.covr = <<>> THEN Body(tags, FALSE, <<>>, <<>>, TRUE)
    ELSE LET cover == tags.covr[1]
             resized == resize_image(cover.data)
         IN Body(IF Truthy(resized)
                 THEN [tags EXCEPT !.covr = <<MP4Cover(resized, "JPEG")>>]
                 ELSE tags,
                 Truthy(resized), <<cover.data>>, PrintedBy(resized), FALSE)

\* Picture(base64.b64decode(picture_data)) raises on a malformed field.
ogg_body(tags) ==
    IF ~tags.has_mbp THEN Body(tags, FALSE, <<>>, <<>>, FALSE)
    ELSE IF tags.mbp = <<>> \/ ~tags.mbp[1].valid
    THEN Body(tags, FALSE, <<>>, <<>>, TRUE)
    ELSE LET picture == tags.mbp[1].block
             resized == resize_image(picture.data)
             new_pic == [EmptyPicture EXCEPT !.type = 3,
                                             !.mime = "image/jpeg",
                                             !.data = resized]
         IN Body(IF Truthy(resized)
                 THEN [tags EXCEPT !.mbp = <<B64Picture(new_pic)>>]
                 ELSE tags,
                 Truthy(resized), <<picture.data>>, PrintedBy(resized), FALSE)

\* Path(file_path).suffix.lower()
Lower(suffix) ==
    CASE suffix = ".FLAC" -> ".flac"
      [] suffix = ".MP3" -> ".mp3"
      [] suffix = ".M4A" -> ".m4a"
      [] suffix = ".OGG" -> ".ogg"
      [] suffix = ".WAV" -> ".wav"
      [] suffix = ".TXT" -> ".txt"
      [] OTHER -> suffix

SUPPORTED_FORMATS == {".flac", ".mp3", ".m4a", ".ogg", ".wav"}

\* process_file's table of processors.
route(file_path) ==
    LET ext == Lower(file_path.suffix) IN
    CASE ext = ".flac" -> "flac"
      [] ext = ".mp3" -> "mp3"
      [] ext = ".m4a" -> "m4a"
      [] ext = ".ogg" -> "ogg"
      [] ext = ".wav" -> "wav"
      [] OTHER -> "unsupported"

adapter_body(adapter, tags) ==
    CASE adapter = "flac" -> flac_body(tags)
      [] adapter = "mp3" -> mp3_body(tags)
      [] adapter = "m4a" -> m4a_body(tags)
      [] adapter = "ogg" -> ogg_body(tags)
      [] adapter = "wav" -> wav_body(tags)

----------------------------------------------------------------------------
(* Inputs *)

GoodA == Image("PNG", "RGBA", 800, 600, 1, 0)
GoodB == Image("JPEG", "RGB", 300, 300, 2, 0)
Pal == Image("PNG", "P", 400, 400, 3, 0)
Bad == Corrupt(4)

CoverData == {GoodA, GoodB, Pal, Bad}

MimeOf(data) == IF data.fmt = "PNG" THEN "image/png" ELSE "image/jpeg"

SeqsUpTo(S, n) == UNION {[1..k -> S] : k \in 0..n}

\* A picture block whose declared fields describe its bytes.
PictureOf(type, data) ==
    Picture(type, MimeOf(data), "", data.w, data.h, data)

PicturesOf(s) == [i \in 1..Len(s) |-> PictureOf(s[i][1], s[i][2])]

\* APIC frames as a tagger wrote them: distinct descriptions, Latin-1.
FramesOf(s) ==
    [i \in 1..Len(s) |-> APIC(0, MimeOf(s[i][2]), s[i][1], ToString(i), s[i][2])]

CoversOf(s) ==
    [i \in 1..Len(s) |-> MP4Cover(s[i], IF s[i].fmt = "PNG" THEN "PNG" ELSE "JPEG")]

TypedData == {3, 4} \X CoverData

FlacFiles == {FlacMeta(PicturesOf(s)) : s \in SeqsUpTo(TypedData, MaxPics)}

Mp3Files == {Mp3Meta(ID3Tag(FramesOf(s), TRUE)) : s \in SeqsUpTo(TypedData, MaxPics)}

WavFiles ==
    {WavMeta(FALSE, ID3Tag(<<>>, FALSE))}
    \cup {WavMeta(TRUE, ID3Tag(FramesOf(s), t)) :
            s \in SeqsUpTo(TypedData, MaxPics), t \in BOOLEAN}

M4aFiles ==
    {M4aMeta(FALSE, <<>>)}
    \cup {M4aMeta(TRUE, CoversOf(s)) : s \in SeqsUpTo(CoverData, MaxPics)}

OggFields ==
    {B64Garbage} \cup {B64Picture(PictureOf(td[1], td[2])) : td \in TypedData}

OggFiles ==
    {OggMeta(FALSE, <<>>)}
    \cup {OggMeta(TRUE, s) : s \in SeqsUpTo(OggFields, MaxPics)}

Path(name, suffix) == [name |-> name, suffix |-> suffix]

Paths ==
    {Path("a", ".flac"), Path("b", ".MP3"), Path("c", ".m4a"),
     Path("d", ".ogg"), Path("e", ".wav"), Path("n", ".txt")}

\* Every metadata a file at this path can hold.
Contents(p) ==
    LET a == route(p) IN
    CASE a = "flac" -> FlacFiles
      [] a = "mp3" -> Mp3Files
      [] a = "m4a" -> M4aFiles
      [] a = "ogg" -> OggFiles
      [] a = "wav" -> WavFiles
      [] OTHER -> {OtherMeta}

\* The files of a batch: no picture, a good cover, an undecodable cover.
Fixtures(p) ==
    LET a == route(p) IN
    CASE a = "flac" ->
            {FlacMeta(PicturesOf(s)) : s \in {<<>>, <<<<3, GoodA>>>>, <<<<3, Bad>>>>}}
      [] a = "mp3" ->
            {Mp3Meta(ID3Tag(FramesOf(s), TRUE)) :
                s \in {<<>>, <<<<3, GoodA>>>>, <<<<3, Bad>>>>}}
      [] a = "m4a" ->
            {M4aMeta(FALSE, <<>>), M4aMeta(TRUE, CoversOf(<<GoodA>>)),
             M4aMeta(TRUE, CoversOf(<<Bad>>))}
      [] a = "ogg" ->
            {OggMeta(FALSE, <<>>), OggMeta(TRUE, <<B64Picture(PictureOf(3, GoodA))>>),
             OggMeta(TRUE, <<B64Garbage>>)}
      [] a = "wav" ->
            {WavMeta(FALSE, ID3Tag(<<>>, FALSE)),
             WavMeta(TRUE, ID3Tag(FramesOf(<<<<3, GoodA>>>>), FALSE)),
             WavMeta(TRUE, ID3Tag(FramesOf(<<<<3, Bad>>>>), FALSE))}
      [] OTHER -> {OtherMeta}

Modes == {"1", "L", "LA", "P", "RGB", "RGBA", "CMYK"}
Dims == {1, 500, 800, 1200}

\* Container a picture of this mode is stored in.
SourceFmt(mode) == IF mode = "CMYK" THEN "JPEG" ELSE "PNG"

ResizeInputs ==
    {Image(SourceFmt(m), m, w, h, 1, 0) : m \in Modes, w \in Dims, h \in Dims}
    \cup {Bad}

----------------------------------------------------------------------------
(* State *)

NoPath == Path("", "")
NoTags == [fmt |-> "none"]

ClosedHandle ==
    [open |-> FALSE, path |-> NoPath, tags |-> NoTags, modified |-> FALSE]

NoCall ==
    [path |-> NoPath, pre |-> NoTags, passed |-> <<>>, save_calls |-> 0,
     returned |-> FALSE, ret |-> FALSE]

InitRun ==
    /\ pc = "collect"
    /\ valid_files = {}
    /\ todo = {}
    /\ success_count = 0
    /\ handle = ClosedHandle
    /\ call = NoCall
    /\ log = [p \in argv |-> <<>>]
    /\ handed = [p \in argv |-> 0]
    /\ run = 1
    /\ history = <<>>
    /\ img_in = NoneBytes
    /\ img_out = NoneBytes

\* One file, holding any metadata of its format.
Init ==
    /\ \E p \in Paths :
          /\ argv = {p}
          /\ \E c \in Contents(p) : disk = (p :> c)
    /\ InitRun

\* A batch of up to MaxFiles files.
InitBatch ==
    /\ \E S \in SUBSET Paths :
          /\ S # {}
          /\ Cardinality(S) <= MaxFiles
          /\ argv = S
          /\ disk \in {d \in [S -> UNION {Fixtures(p) : p \in S}] :
                          \A p \in S : d[p] \in Fixtures(p)}
    /\ InitRun

\* A direct call of resize_image.
InitResize ==
    /\ img_in \in ResizeInputs
    /\ img_out = NoneBytes
    /\ pc = "resize"
    /\ argv = {}
    /\ disk = <<>>
    /\ valid_files = {}
    /\ todo = {}
    /\ success_count = 0
    /\ handle = ClosedHandle
    /\ call = NoCall
    /\ log = <<>>
    /\ handed = <<>>
    /\ run = 1
    /\ history = <<>>

----------------------------------------------------------------------------
(* process_files, process_file and the adapters *)

AfterError_abort == "aborted"

\* Where control goes once an adapter's `except Exception` has returned
\* False: back into process_files' for-loop.
AfterError == "loop"

loop_rest(files, f) == files \ {f}

ShouldSave_always(modified) == TRUE

\* if modified: audio.save()
ShouldSave(modified) == modified

\* The line process_files prints for what process_file returned.
StatusLine(ret) == IF ret THEN "success" ELSE "nocover"

\* The adapter returns `ret` after printing `lines`; process_files reports.
Return(f, lines, ret, next_pc) ==
    /\ log' = [log EXCEPT ![f] = @ \o lines \o <<StatusLine(ret)>>]
    /\ success_count' = IF ret THEN success_count + 1 ELSE success_count
    /\ todo' = loop_rest(todo, f)
    /\ handle' = ClosedHandle
    /\ pc' = next_pc

Collect ==
    /\ pc = "collect"
    /\ valid_files' = {p \in argv : Lower(p.suffix) \in SUPPORTED_FORMATS}
    /\ todo' = valid_files'
    /\ success_count' = 0
    /\ pc' = IF valid_files' = {} THEN "nofiles" ELSE "loop"
    /\ UNCHANGED <<argv, disk, handle, call, log, handed, run, history,
                   img_in, img_out>>

\* process_file routes f to its adapter, which parses the file's metadata;
\* parsing may raise (malformed or unreadable file).
Open(f) ==
    /\ pc = "loop"
    /\ f \in todo
    /\ handed' = [handed EXCEPT ![f] = @ + 1]
    /\ \E parse_ok \in BOOLEAN :
          IF route(f) = "unsupported"
          THEN /\ Return(f, <<"unsupported">>, FALSE, "loop")
               /\ call' = [NoCall EXCEPT !.path = f, !.pre = disk[f],
                                         !.returned = TRUE]
          ELSE IF parse_ok
          THEN /\ handle' = [open |-> TRUE, path |-> f, tags |-> disk[f],
                             modified |-> FALSE]
               /\ call' = [NoCall EXCEPT !.path = f, !.pre = disk[f]]
               /\ pc' = "opened"
               /\ UNCHANGED <<log, success_count, todo>>
          ELSE /\ Return(f, <<"error:parse">>, FALSE, AfterError)
               /\ call' = [NoCall EXCEPT !.path = f, !.pre = disk[f],
                                         !.returned = TRUE]
    /\ UNCHANGED <<argv, disk, valid_files, run, history, img_in, img_out>>

\* The adapter's body up to `if modified:`.
Mutate ==
    /\ pc = "opened"
    /\ LET f == handle.path
           b == adapter_body(route(f), handle.tags)
       IN IF b.raised
          THEN /\ Return(f, b.printed \o <<"error:body">>, FALSE, AfterError)
               /\ call' = [call EXCEPT !.passed = b.passed, !.returned = TRUE]
          ELSE /\ handle' = [handle EXCEPT !.tags = b.tags,
                                           !.modified = b.modified]
               /\ log' = [log EXCEPT ![f] = @ \o b.printed]
               /\ call' = [call EXCEPT !.passed = b.passed]
               /\ pc' = "mutated"
               /\ UNCHANGED <<success_count, todo>>
    /\ UNCHANGED <<argv, disk, valid_files, handed, run, history, img_in,
                   img_out>>

\* `if modified: audio.save(); return True`, else `return False`. A save that
\* raises is taken to leave the file as it was.
Close ==
    /\ pc = "mutated"
    /\ LET f == handle.path IN
       \E save_ok \in BOOLEAN :
          IF ~ShouldSave(handle.modified)
          THEN /\ Return(f, <<>>, FALSE, "loop")
               /\ call' = [call EXCEPT !.returned = TRUE]
               /\ UNCHANGED disk
          ELSE IF save_ok
          THEN /\ disk' = [disk EXCEPT ![f] = handle.tags]
               /\ Return(f, <<>>, TRUE, "loop")
               /\ call' = [call EXCEPT !.returned = TRUE, !.ret = TRUE,
                                       !.save_calls = @ + 1]
          ELSE /\ Return(f, <<"error:save">>, FALSE, AfterError)
               /\ call' = [call EXCEPT !.returned = TRUE,
                                       !.save_calls = @ + 1]
               /\ UNCHANGED disk
    /\ UNCHANGED <<argv, valid_files, handed, run, history, img_in, img_out>>

Summary ==
    /\ pc = "loop"
    /\ todo = {}
    /\ pc' = "summary"
    /\ UNCHANGED <<argv, disk, valid_files, todo, success_count, handle, call,
                   log, handed, run, history, img_in, img_out>>

\* The tool is started again on the same paths.
Rerun ==
    /\ pc = "summary"
    /\ run < MaxRuns
    /\ history' = Append(history, [log |-> log, disk |-> disk])
    /\ run' = run + 1
    /\ pc' = "collect"
    /\ valid_files' = {}
    /\ todo' = {}
    /\ success_count' = 0
    /\ call' = NoCall
    /\ log' = [p \in argv |-> <<>>]
    /\ handed' = [p \in argv |-> 0]
    /\ UNCHANGED <<argv, disk, handle, img_in, img_out>>

ApplyResize ==
    /\ pc = "resize"
    /\ img_out' = resize_image(img_in)
    /\ pc' = "resized"
    /\ UNCHANGED <<argv, disk, valid_files, todo, success_count, handle, call,
                   log, handed, run, history, img_in>>

Next ==
    \/ Collect
    \/ \E f \in argv : Open(f)
    \/ Mutate
    \/ Close
    \/ Summary
    \/ Rerun

\* One run of process_files.
NextBatch ==
    \/ Collect
    \/ \E f \in argv : Open(f)
    \/ Mutate
    \/ Close
    \/ Summary

NextResize == ApplyResize

Spec == Init /\ [][Next]_vars

BatchSpec == InitBatch /\ [][NextBatch]_vars /\ WF_vars(NextBatch)

ResizeSpec == InitResize /\ [][NextResize]_vars

----------------------------------------------------------------------------
(* Vocabulary of the properties *)

Is500Jpeg(data) ==
    data.kind = "image" /\ data.fmt = "JPEG" /\ data.w = 500 /\ data.h = 500

HasAlpha(mode) == mode \in {"RGBA", "LA", "PA", "La", "RGBa"}

\* The transform refused every candidate it was given (or was given none).
NoneTransformed(passed) ==
    \A i \in 1..Len(passed) : ~Truthy(resize_image(passed[i]))

IsID3(meta) == meta.fmt \in {"mp3", "wav"}

Lines(f) == {log[f][i] : i \in 1..Len(log[f])}

ErrorLines == {"error:parse", "error:body", "error:save", "image_failed"}

\* The status a printed line reports.
StatusOf(line) ==
    CASE line \in ErrorLines \cup {"failed"} -> "failure-with-reason"
      [] line = "success" -> "success"
      [] line = "unsupported" -> "unsupported-format"
      [] OTHER -> "no-cover-found"

\* process_files is done with file f in this run.
Processed(f) ==
    /\ f \in valid_files
    /\ f \notin todo
    /\ pc \in {"loop", "summary", "aborted"}

Modified(lines) == lines # <<>> /\ lines[Len(lines)] = "success"

Faulted(lines) ==
    \E i \in 1..Len(lines) : lines[i] \in {"error:parse", "error:save"}

NumPictures(meta) ==
    CASE meta.fmt = "flac" -> Len(meta.pictures)
      [] IsID3(meta) -> Len(meta.id3.frames)
      [] meta.fmt = "m4a" -> Len(meta.covr)
      [] meta.fmt = "ogg" -> Len(meta.mbp)
      [] OTHER -> 0

\* The cover the adapter works on holds a 500x500 JPEG.
CoverIs500Jpeg(meta) ==
    CASE meta.fmt = "flac" ->
            /\ \E i \in 1..Len(meta.pictures) :
                  meta.pictures[i].type = 3 /\ Is500Jpeg(meta.pictures[i].data)
            /\ \A i \in 1..Len(meta.pictures) :
                  (/\ meta.pictures[i].type = 3
                   /\ Truthy(resize_image(meta.pictures[i].data)))
                  => Is500Jpeg(meta.pictures[i].data)
      [] IsID3(meta) ->
            Len(meta.id3.frames) = 1 /\ Is500Jpeg(meta.id3.frames[1].data)
      [] meta.fmt = "m4a" ->
            meta.has_covr /\ Len(meta.covr) = 1 /\ Is500Jpeg(meta.covr[1].data)
      [] meta.fmt = "ogg" ->
            /\ meta.has_mbp /\ Len(meta.mbp) = 1 /\ meta.mbp[1].valid
            /\ Is500Jpeg(meta.mbp[1].block.data)
      [] OTHER -> FALSE

\* The saved cover carries new bytes, new declared size and new MIME.
FullyReplaced(pre, post) ==
    CASE post.fmt = "flac" ->
            \A i \in 1..Len(post.pictures) :
                post.pictures[i] # pre.pictures[i]
                => /\ Is500Jpeg(post.pictures[i].data)
                   /\ post.pictures[i].width = 500
                   /\ post.pictures[i].height = 500
                   /\ post.pictures[i].mime = "image/jpeg"
      [] IsID3(post) ->
            \A i \in 1..Len(post.id3.frames) :
                /\ Is500Jpeg(post.id3.frames[i].data)
                /\ post.id3.frames[i].mime = "image/jpeg"
      [] post.fmt = "m4a" ->
            \A i \in 1..Len(post.covr) :
                /\ Is500Jpeg(post.covr[i].data)
                /\ post.covr[i].imageformat = "JPEG"
      [] post.fmt = "ogg" ->
            \A i \in 1..Len(post.mbp) :
                /\ post.mbp[i].valid
                /\ Is500Jpeg(post.mbp[i].block.data)
                /\ post.mbp[i].block.width = 500
                /\ post.mbp[i].block.height = 500
                /\ post.mbp[i].block.mime = "image/jpeg"
      [] OTHER -> TRUE

----------------------------------------------------------------------------
(* Properties *)

\* C1: an adapter that found no candidate picture, or whose every candidate
\* the transform refused, has not called save, has returned a non-Modified
\* result, and has left the file's metadata on disk as it was.
C1_NoTransformNoSave ==
    (call.returned /\ NoneTransformed(call.passed))
    => /\ call.save_calls = 0
       /\ ~call.ret
       /\ disk[call.path] = call.pre

\* C1 witness: process_mp3 has returned from a file whose single APIC frame
\* holds undecodable bytes.
C1_Witness_CorruptMp3 ==
    /\ call.returned
    /\ call.pre.fmt = "mp3"
    /\ Len(call.pre.id3.frames) = 1
    /\ call.passed = <<Bad>>
    /\ disk[call.path] = call.pre

\* C2: whenever an adapter has saved a file, the cover it persisted is fully
\* replaced: transform output as bytes, declared width and height 500, and
\* declared MIME image/jpeg.
C2_SavedCoverFullyReplaced ==
    (call.returned /\ call.ret) => FullyReplaced(call.pre, disk[call.path])

\* C3: after process_flac returns, the file holds as many picture blocks as
\* before, in the same order, and every block whose type is not 3 is
\* unchanged in all its fields.
C3_FlacSiblingsUntouched ==
    (call.returned /\ call.pre.fmt = "flac")
    => LET before == call.pre.pictures
           after == disk[call.path].pictures
       IN /\ Len(after) = Len(before)
          /\ \A i \in 1..Len(before) :
                /\ after[i].type = before[i].type
                /\ before[i].type # 3 => after[i] = before[i]

\* C3 witness: process_flac has saved a file holding a back cover and a
\* front cover, and the front cover changed.
C3_Witness_FrontAndBack ==
    /\ call.returned
    /\ call.ret
    /\ call.pre.fmt = "flac"
    /\ \E i, j \in 1..Len(call.pre.pictures) :
          /\ call.pre.pictures[i].type = 4
          /\ call.pre.pictures[j].type = 3
          /\ disk[call.path].pictures[j] # call.pre.pictures[j]

\* C4: process_flac hands at most the first type-3 block to the transform,
\* and every later type-3 block keeps its data, width and height.
C4_FlacOnlyFirstFrontCover ==
    (call.returned /\ call.pre.fmt = "flac")
    => LET before == call.pre.pictures
           after == disk[call.path].pictures
       IN /\ Len(call.passed) <= 1
          /\ \A i \in 1..Len(before) :
                (/\ before[i].type = 3
                 /\ \E j \in 1..(i - 1) : before[j].type = 3)
                => after[i] = before[i]

\* C5: when process_mp3 / process_wav has returned Modified, the saved tag
\* holds exactly one APIC frame, with encoding 3, MIME image/jpeg, type 3,
\* description "Cover" and the transform's output as data, and none of the
\* original frames.
C5_Id3ExactlyOneCover ==
    (call.returned /\ call.ret /\ IsID3(call.pre))
    => LET frames == disk[call.path].id3.frames IN
       /\ Len(call.passed) >= 1
       /\ frames = <<APIC(3, "image/jpeg", 3, "Cover",
                          resize_image(call.passed[Len(call.passed)]))>>
       /\ Is500Jpeg(frames[1].data)
       /\ \A i \in 1..Len(call.pre.id3.frames) :
             call.pre.id3.frames[i] # frames[1]

\* C5 witness: process_mp3 / process_wav has returned Modified from a file
\* that held two APIC frames.
C5_Witness_TwoFrames ==
    /\ call.returned
    /\ call.ret
    /\ IsID3(call.pre)
    /\ Len(call.pre.id3.frames) = 2

\* C6: on a file with two or more APIC frames, process_mp3 / process_wav
\* hands only the first frame to the transform: when it does not decode the
\* file is neither modified nor saved, and when it does the surviving frame
\* holds the transform of the first frame.
C6_Id3OnlyFirstFrame ==
    (call.returned /\ IsID3(call.pre) /\ Len(call.pre.id3.frames) >= 2)
    => LET first == call.pre.id3.frames[1].data IN
       /\ Len(call.passed) <= 1
       /\ ~Truthy(resize_image(first))
            => (~call.ret /\ call.save_calls = 0 /\ disk[call.path] = call.pre)
       /\ call.ret
            => disk[call.path].id3.frames[1].data = resize_image(first)

\* C7: every processed file is reported with exactly one status, and a file
\* that hit a parse, decode or save failure is reported as
\* failure-with-reason and never as no-cover-found.
C7_OneStatusPerFile ==
    \A f \in argv :
        Processed(f)
        => /\ Cardinality({StatusOf(l) : l \in Lines(f)}) = 1
           /\ (Lines(f) \cap ErrorLines # {} /\ ~Modified(log[f]))
                => "nocover" \notin Lines(f)

\* C8: in a batch run no failure stops the run: no file is handed to an
\* adapter twice, only collected files are, no audio object is live between
\* two files, at the summary every collected file has been handed to its
\* adapter once and reported, and once the loop over the collected files
\* has started the run reaches the summary.
C8_BatchRunsToSummary ==
    /\ [](\A f \in argv :
             /\ handed[f] <= 1
             /\ handed[f] = 1 => f \in valid_files)
    /\ [](pc \in {"collect", "loop", "summary", "nofiles"} => ~handle.open)
    /\ [](handle.open => (handle.path = call.path /\ handed[handle.path] = 1))
    /\ [](pc = "summary"
             => \A f \in argv :
                   Lower(f.suffix) \in SUPPORTED_FORMATS
                   => (handed[f] = 1 /\ log[f] # <<>>))
    /\ (pc = "loop") ~> (pc = "summary")

\* C8 witness: a batch of two files has reached its summary although the
\* metadata of one of them could not be parsed.
C8_Witness_FailureThenSummary ==
    /\ pc = "summary"
    /\ Cardinality(valid_files) >= 2
    /\ \E f, g \in valid_files :
          /\ "error:parse" \in Lines(f)
          /\ Modified(log[g])

\* C9: a file on which one run reported Modified is reported Modified again
\* by the next run (when that run meets no I/O fault on it), holds as many
\* pictures after it as before it, and its cover is a 500x500 JPEG after
\* either run.
C9_SecondRunModifiesAgain ==
    (pc = "summary" /\ run >= 2)
    => \A f \in valid_files :
          LET first == history[run - 1] IN
          (Modified(first.log[f]) /\ ~Faulted(log[f]))
          => /\ Modified(log[f])
             /\ NumPictures(disk[f]) = NumPictures(first.disk[f])
             /\ CoverIs500Jpeg(first.disk[f])
             /\ CoverIs500Jpeg(disk[f])

\* C9 witness: a second run has reported Modified on a file the first run
\* modified.
C9_Witness_TwoModifiedRuns ==
    /\ pc = "summary"
    /\ run = 2
    /\ \E f \in valid_files :
          Modified(history[1].log[f]) /\ Modified(log[f])

\* C10: for every decodable input, resize_image returns a 500x500 JPEG with
\* no alpha channel; it returns Failure only for undecodable input.
C10_ResizeTotalOnDecodable ==
    pc = "resized"
    => /\ CanOpen(img_in) => (Is500Jpeg(img_out) /\ ~HasAlpha(img_out.mode))
       /\ ~Truthy(img_out) => ~CanOpen(img_in)

====
